---- MODULE Spec2Model ----
(***************************************************************************)
(* A model of vptstools' two command line routines:                        *)
(*   - bin/vph5_to_vpts.py      cli: daily and monthly VPTS files on S3    *)
(*   - scripts/vph5_to_vpts.py  cli: ODIM hdf5 profiles to a vpts package  *)
(* Python strings are sequences of one-character strings wherever the code *)
(* looks inside them (find, sorted); otherwise they are TLA+ strings.      *)
(***************************************************************************)
EXTENDS Integers, Sequences, FiniteSets, TLC

\* ------------------------------------------------------------------ bounds
\* daily targets handed to one run of the bin cli
MaxDays == 2
\* raw objects listed for one radar-day
MaxFiles == 2
\* height levels of one ODIM container
MaxLevels == 2
\* ODIM files the pattern of the scripts cli matches
MaxOdims == 3

VARIABLES
    \* ---- bin cli
    pc,                   \* position of the bin cli
    path_s3_folder,       \* TRUE: folder-scan mode, FALSE: manifest mode
    coverage_csv,         \* s3://bucket/coverage.csv: its rows, number of writes in this run
    df_cov,               \* the coverage frame handle_manifest returned (or not bound)
    days_to_create_vpts,  \* the "directory" column of days_to_create_vpts
    planned_days,         \* history: the directories as the planning step returned them
    j,                    \* loop index of the daily loop, then of the monthly loop
    locals,               \* source, radar_code, year, month, day of the frame (or Unbound)
    odim5_files,          \* number of raw objects listed for the current radar-day
    i,                    \* number of raw objects downloaded so far
    temp_folders,         \* indexes of the daily targets whose temp folder exists on disk
    local_csv,            \* the daily csv in the current temp folder (or NoFile)
    bucket_daily,         \* S3: daily csv key -> text
    bucket_monthly,       \* S3: monthly csv key -> text
    warnings,             \* the [WARNING] lines echoed so far
    daily_state,          \* per daily target: Pending, Built, Failed
    daily_puts,           \* per daily target: number of times its daily key was put
    months_to_create_vpts,\* the "directory" column of months_to_create_vpts
    month_state,          \* per monthly target: Pending, Built, Failed
    month_attempts,       \* the monthly targets whose iteration started, in order
    files_to_concat,      \* the sorted, filtered listing of the current month
    df_month,             \* the concatenated frame of the current month
    \* ---- scripts cli
    s_pc,                 \* position of the scripts cli
    odims,                \* the ODIMReader objects, in glob order
    open_handles,         \* indexes of the readers whose hdf5 file is open
    profiles,             \* the sorted profiles
    global_metadata,      \* global_metadata (radar_identifiers)
    full_data_table,      \* the aggregated rows
    output_files,         \* files in the output folder: name -> content
    exit_code,            \* exit status of the process, -1 while it runs
    raised,               \* the exception that left cli, "" if none
    \* ---- the extraction functions applied to one container
    x_pc,                 \* which function was applied last
    x_odim,               \* the container
    x_values,             \* a call of get_values and its result
    x_result,             \* the result of Profile.make_from_odim
    x_table,              \* the result of Profile.to_table
    x_csv                 \* the result of table_to_frictionless_csv

bin_vars == <<pc, path_s3_folder, coverage_csv, df_cov, days_to_create_vpts, planned_days, j, locals,
              odim5_files, i, temp_folders, local_csv, bucket_daily, bucket_monthly,
              warnings, daily_state, daily_puts, months_to_create_vpts, month_state,
              month_attempts, files_to_concat, df_month>>

cli_vars == <<s_pc, odims, open_handles, profiles, global_metadata, full_data_table,
              output_files, exit_code, raised>>

x_vars == <<x_pc, x_odim, x_values, x_result, x_table, x_csv>>

vars == <<bin_vars, cli_vars, x_vars>>

\* ------------------------------------------------------------ python strings
Alphabet == <<"-", ".", "/", "0", "1", "2", "3", "4", "5", "6", "7", "8", "9", "_",
              "a", "b", "c", "d", "e", "f", "g", "h", "i", "j", "k", "l", "m", "n",
              "o", "p", "q", "r", "s", "t", "u", "v", "w", "x", "y", "z">>

\* the code point order of the characters in use
Ord(c) == CHOOSE n \in 1..Len(Alphabet) : Alphabet[n] = c

\* the characters of the strings in use
chars(s) ==
  CASE s = "inbo-aloft-uat-eu-west-1-default" ->
         <<"i", "n", "b", "o", "-", "a", "l", "o", "f", "t", "-", "u", "a", "t", "-",
           "e", "u", "-", "w", "e", "s", "t", "-", "1", "-", "d", "e", "f", "a", "u",
           "l", "t">>
    [] s = "baltrad" -> <<"b", "a", "l", "t", "r", "a", "d">>
    [] s = "hdf5" -> <<"h", "d", "f", "5">>
    [] s = "bejab" -> <<"b", "e", "j", "a", "b">>
    [] s = "bewid" -> <<"b", "e", "w", "i", "d">>
    [] s = "daily" -> <<"d", "a", "i", "l", "y">>
    [] s = "monthly" -> <<"m", "o", "n", "t", "h", "l", "y">>
    [] s = "_vpts_" -> <<"_", "v", "p", "t", "s", "_">>
    [] s = ".csv" -> <<".", "c", "s", "v">>
    [] s = "/" -> <<"/">>
    [] s = "2021" -> <<"2", "0", "2", "1">>
    [] s = "2022" -> <<"2", "0", "2", "2">>
    [] s = "10" -> <<"1", "0">>
    [] s = "01" -> <<"0", "1">>
    [] s = "05" -> <<"0", "5">>
    [] s = "06" -> <<"0", "6">>

\* str < str
RECURSIVE str_lt(_, _)
str_lt(a, b) ==
  IF b = <<>> THEN FALSE
  ELSE IF a = <<>> THEN TRUE
  ELSE IF Ord(Head(a)) # Ord(Head(b)) THEN Ord(Head(a)) < Ord(Head(b))
  ELSE str_lt(Tail(a), Tail(b))

\* tuple < tuple, for tuples of strings
RECURSIVE tuple_lt(_, _)
tuple_lt(a, b) ==
  IF b = <<>> THEN FALSE
  ELSE IF a = <<>> THEN TRUE
  ELSE IF Head(a) # Head(b) THEN str_lt(chars(Head(a)), chars(Head(b)))
  ELSE tuple_lt(Tail(a), Tail(b))

\* str.find(sub): the lowest index (from 0) where sub occurs, or -1
find(s, sub) ==
  LET at == {n \in 0..(Len(s) - Len(sub)) : SubSeq(s, n + 1, n + Len(sub)) = sub}
  IN IF at = {} THEN -1 ELSE CHOOSE n \in at : \A m \in at : n <= m

\* sorted(list of str), the list given as the set of its (distinct) members
RECURSIVE sorted_strs(_)
sorted_strs(S) ==
  IF S = {} THEN <<>>
  ELSE LET lo == CHOOSE x \in S : \A y \in S \ {x} : str_lt(x, y)
       IN <<lo>> \o sorted_strs(S \ {lo})

\* the sorted group keys of a groupby, the groups given as a set of tuples
RECURSIVE sorted_tuples(_)
sorted_tuples(S) ==
  IF S = {} THEN <<>>
  ELSE LET lo == CHOOSE x \in S : \A y \in S \ {x} : tuple_lt(x, y)
       IN <<lo>> \o sorted_tuples(S \ {lo})

Range(s) == {s[n] : n \in DOMAIN s}

\* ------------------------------------------------------------ module constants
S3_BUCKET == "inbo-aloft-uat-eu-west-1-default"

\* a local name of the frame that no assignment has bound yet
Unbound == "UNBOUND"
NoFile == <<>>

\* ------------------------------------------------------------ vptstools.s3
\* OdimFilePath(source, radar_code, data_type, year, month, day)
OdimFilePath(source, radar_code, data_type, year, month, day) ==
  [source |-> source, radar_code |-> radar_code, data_type |-> data_type,
   year |-> year, month |-> month, day |-> day]

\* OdimFilePath.s3_path_setup(file_output): {source}/{file_output}/{radar_code}/{year}
s3_path_setup(p, file_output) ==
  chars(p.source) \o chars("/") \o chars(file_output) \o chars("/")
    \o chars(p.radar_code) \o chars("/") \o chars(p.year)

\* OdimFilePath.daily_vpts_file_name: {radar_code}_vpts_{year}{month}{day}.csv
daily_vpts_file_name(p) ==
  chars(p.radar_code) \o chars("_vpts_") \o chars(p.year) \o chars(p.month)
    \o chars(p.day) \o chars(".csv")

\* OdimFilePath.s3_file_path_daily_vpts
s3_file_path_daily_vpts(p) ==
  s3_path_setup(p, "daily") \o chars("/") \o daily_vpts_file_name(p)

\* OdimFilePath.s3_file_path_monthly_vpts: .../{radar_code}_vpts_{year}{month}.csv
s3_file_path_monthly_vpts(p) ==
  s3_path_setup(p, "monthly") \o chars("/") \o chars(p.radar_code) \o chars("_vpts_")
    \o chars(p.year) \o chars(p.month) \o chars(".csv")

\* s3fs ls(path): the keys of the objects directly under the folder
ls(bucket, path) ==
  {key \in DOMAIN bucket :
     /\ Len(key) > Len(path) + 1
     /\ SubSeq(key, 1, Len(path) + 1) = path \o chars("/")
     /\ find(SubSeq(key, Len(path) + 2, Len(key)), chars("/")) = -1}

\* ------------------------------------------------------------ pandas
NaN == "<NaN>"
\* pandas' default missing-value strings that occur in the files of the model
default_na_values == {"", "NA", "nan"}

\* pd.read_csv(text, dtype=str, keep_default_na=...): a frame of string cells
read_csv(text, keep_default_na) ==
  [columns |-> Head(text),
   rows |-> [r \in 1..(Len(text) - 1) |->
               [c \in 1..Len(text[r + 1]) |->
                  IF keep_default_na /\ text[r + 1][c] \in default_na_values
                  THEN NaN ELSE text[r + 1][c]]]]

\* pd.concat(frames) of frames that have the same columns
RECURSIVE concat_rows(_)
concat_rows(frames) ==
  IF frames = <<>> THEN <<>> ELSE Head(frames).rows \o concat_rows(Tail(frames))

pd_concat(frames) == [columns |-> frames[1].columns, rows |-> concat_rows(frames)]

\* DataFrame.to_csv(index=False): the header line, then one line per row
to_csv(df) ==
  <<df.columns>> \o
    [r \in 1..Len(df.rows) |->
       [c \in 1..Len(df.rows[r]) |-> IF df.rows[r][c] = NaN THEN "" ELSE df.rows[r][c]]]

\* ------------------------------------------------------------ inputs of the bin cli
\* radar-day directories the planning step can hand over; the last one is a
\* directory that does not have the six parts the daily loop unpacks
DayTargets ==
  { <<"baltrad", "hdf5", "bejab", "2022", "10", "05">>,
    <<"baltrad", "hdf5", "bejab", "2022", "10", "06">>,
    <<"baltrad", "hdf5", "bewid", "2022", "10", "05">>,
    <<"baltrad", "hdf5", "bejab", "2022">> }

\* radar-days whose daily csv may be on the bucket before the run
PriorDays ==
  { <<"baltrad", "hdf5", "bejab", "2022", "10", "06">>,
    <<"baltrad", "hdf5", "bejab", "2022", "01", "10">> }

\* lists of distinct directories (the planning step groups by directory)
DayLists ==
  {ds \in UNION {[1..n -> DayTargets] : n \in 0..MaxDays} :
     \A a, b \in DOMAIN ds : a # b => ds[a] # ds[b]}

\* line 139: "/".join(parts)
RECURSIVE str_join(_)
str_join(parts) ==
  IF parts = <<>> THEN <<>>
  ELSE IF Len(parts) = 1 THEN chars(parts[1])
  ELSE chars(parts[1]) \o chars("/") \o str_join(Tail(parts))

\* df_cov before handle_manifest is called
NoFrame == [bound |-> FALSE, rows |-> <<>>]

\* coverage frames handle_manifest can return: a directory (its parts) and a
\* file count per row
CoverageFrames ==
  { << [directory |-> <<"baltrad", "hdf5", "bejab", "2022", "10", "05">>, file_count |-> 2] >>,
    << [directory |-> <<"baltrad", "hdf5", "bejab", "2022", "10", "05">>, file_count |-> 2],
       [directory |-> <<"baltrad", "hdf5", "bewid", "2022", "10", "05">>, file_count |-> 1] >> }

\* the rows of coverage.csv on the bucket before the run
PriorCoverage ==
  << [directory |-> str_join(<<"baltrad", "hdf5", "bejab", "2022", "01", "10">>),
      file_count |-> 3] >>

\* a write that appends to the rows the file already has
coverage_to_csv_appended(file, rows) ==
  [content |-> file.content \o rows, writes |-> file.writes + 1]

\* lines 140-142: df_cov.to_csv("s3://{S3_BUCKET}/coverage.csv", index=False)
coverage_to_csv(file, rows) ==
  [content |-> rows, writes |-> file.writes + 1]

CsvHeader == <<"radar", "year", "month", "day", "height", "dens">>

\* the text of a daily csv of radar-day t: the one on the bucket before the run
\* ("prior") and the one this run converts ("run")
DailyCsvText(t, version) ==
  IF version = "prior"
  THEN <<CsvHeader, <<t[3], t[4], t[5], t[6], "0", "undetect">>>>
  ELSE <<CsvHeader, <<t[3], t[4], t[5], t[6], "0", "nodata">>,
                    <<t[3], t[4], t[5], t[6], "200", "">>>>

\* the S3 key of the daily csv of radar-day t, as s3fs lists it
DailyKey(t) ==
  chars(S3_BUCKET) \o chars("/")
    \o s3_file_path_daily_vpts(OdimFilePath(t[1], t[3], "vp", t[4], t[5], t[6]))

\* the S3 key of the monthly csv of radar-month m
MonthlyKey(m) ==
  chars(S3_BUCKET) \o chars("/")
    \o s3_file_path_monthly_vpts(OdimFilePath(m[1], m[3], "vp", m[4], m[5], "01"))

UnboundLocals ==
  [source |-> Unbound, radar_code |-> Unbound, year |-> Unbound, month |-> Unbound,
   day |-> Unbound]

\* odim_path of the current iteration (lines 155 and 209)
odim_path == OdimFilePath(locals.source, locals.radar_code, "vp", locals.year,
                          locals.month, locals.day)

\* ------------------------------------------------------------ bin cli: state
InitBin ==
  /\ pc = "plan"
  /\ path_s3_folder \in BOOLEAN
  /\ coverage_csv = [content |-> PriorCoverage, writes |-> 0]
  /\ df_cov = NoFrame
  /\ days_to_create_vpts = <<>>
  /\ planned_days = <<>>
  /\ j = 1
  /\ locals = UnboundLocals
  /\ odim5_files = 0
  /\ i = 0
  /\ temp_folders = {}
  /\ local_csv = NoFile
  /\ \E P \in SUBSET PriorDays :
        bucket_daily = [key \in {DailyKey(t) : t \in P} |->
                          DailyCsvText(CHOOSE t \in P : DailyKey(t) = key, "prior")]
  /\ bucket_monthly = <<>>
  /\ warnings = <<>>
  /\ daily_state = <<>>
  /\ daily_puts = <<>>
  /\ months_to_create_vpts = <<>>
  /\ month_state = <<>>
  /\ month_attempts = <<>>
  /\ files_to_concat = <<>>
  /\ df_month = [columns |-> <<>>, rows |-> <<>>]

\* lines 92-137: plan the radar-days: a folder scan, or handle_manifest, which
\* returns the coverage frame as well
Plan ==
  /\ pc = "plan"
  /\ \E ds \in DayLists :
       /\ days_to_create_vpts' = ds
       /\ planned_days' = ds
       /\ daily_state' = [n \in DOMAIN ds |-> "Pending"]
       /\ daily_puts' = [n \in DOMAIN ds |-> 0]
  /\ IF path_s3_folder
     THEN /\ pc' = "daily"
          /\ UNCHANGED df_cov
     ELSE /\ pc' = "coverage"
          /\ \E rows \in CoverageFrames : df_cov' = [bound |-> TRUE, rows |-> rows]
  /\ UNCHANGED <<path_s3_folder, coverage_csv, j, locals, odim5_files, i, temp_folders,
                 local_csv, bucket_daily, bucket_monthly, warnings, months_to_create_vpts,
                 month_state, month_attempts, files_to_concat, df_month>>

\* lines 137-142: join the parts of every directory and write coverage.csv
SaveCoverage ==
  /\ pc = "coverage"
  /\ df_cov' = [df_cov EXCEPT !.rows = [n \in DOMAIN df_cov.rows |->
                   [df_cov.rows[n] EXCEPT !.directory = str_join(@)]]]
  /\ coverage_csv' = coverage_to_csv(coverage_csv, df_cov'.rows)
  /\ pc' = "daily"
  /\ UNCHANGED <<path_s3_folder, days_to_create_vpts, planned_days, j, locals, odim5_files,
                 i, temp_folders, local_csv, bucket_daily, bucket_monthly, warnings,
                 daily_state, daily_puts, months_to_create_vpts, month_state,
                 month_attempts, files_to_concat, df_month>>

\* lines 189-191: the except clause of the daily loop. The warning formats source,
\* radar_code, year, month and day: names the frame binds at line 154 only.
DailyExcept ==
  IF locals.source = Unbound
  THEN /\ pc' = "aborted"
       /\ UNCHANGED <<j, warnings, daily_state>>
  ELSE /\ pc' = "daily"
       /\ j' = j + 1
       /\ warnings' = Append(warnings, [loop |-> "daily", target |-> j, names |-> locals])
       /\ daily_state' = [daily_state EXCEPT ![j] = "Failed"]

\* line 154-155: unpack the directory, build the OdimFilePath
DailyUnpack ==
  /\ pc = "daily"
  /\ j <= Len(days_to_create_vpts)
  /\ LET daily_vpts == days_to_create_vpts[j]
     IN IF Len(daily_vpts) = 6
        THEN /\ locals' = [source |-> daily_vpts[1], radar_code |-> daily_vpts[3],
                           year |-> daily_vpts[4], month |-> daily_vpts[5],
                           day |-> daily_vpts[6]]
             /\ pc' = "ls"
             /\ UNCHANGED <<j, warnings, daily_state>>
        ELSE /\ DailyExcept
             /\ UNCHANGED locals
  /\ UNCHANGED <<path_s3_folder, coverage_csv, df_cov, planned_days, days_to_create_vpts, odim5_files, i,
                 temp_folders, local_csv, bucket_daily, bucket_monthly, daily_puts,
                 months_to_create_vpts, month_state, month_attempts, files_to_concat,
                 df_month>>

\* line 156: list the raw objects of the day
DailyLs ==
  /\ pc = "ls"
  /\ \E ok \in BOOLEAN, n \in 0..MaxFiles :
       IF ok
       THEN /\ odim5_files' = n
            /\ pc' = "mkdtemp"
            /\ UNCHANGED <<j, warnings, daily_state>>
       ELSE /\ n = 0
            /\ DailyExcept
            /\ UNCHANGED odim5_files
  /\ UNCHANGED <<path_s3_folder, coverage_csv, df_cov, planned_days, days_to_create_vpts, locals, i,
                 temp_folders, local_csv, bucket_daily, bucket_monthly, daily_puts,
                 months_to_create_vpts, month_state, month_attempts, files_to_concat,
                 df_month>>

\* line 159: create the temp folder
DailyMkdtemp ==
  /\ pc = "mkdtemp"
  /\ temp_folders' = temp_folders \cup {j}
  /\ local_csv' = NoFile
  /\ i' = 0
  /\ pc' = "download"
  /\ UNCHANGED <<path_s3_folder, coverage_csv, df_cov, planned_days, days_to_create_vpts, j, locals,
                 odim5_files, bucket_daily, bucket_monthly, warnings, daily_state,
                 daily_puts, months_to_create_vpts, month_state, month_attempts,
                 files_to_concat, df_month>>

\* lines 163-173: download one raw object into the temp folder
DailyDownload ==
  /\ pc = "download"
  /\ i < odim5_files
  /\ \E ok \in BOOLEAN :
       IF ok
       THEN /\ i' = i + 1
            /\ UNCHANGED <<pc, j, warnings, daily_state>>
       ELSE /\ DailyExcept
            /\ UNCHANGED i
  /\ UNCHANGED <<path_s3_folder, coverage_csv, df_cov, planned_days, days_to_create_vpts, locals, odim5_files,
                 temp_folders, local_csv, bucket_daily, bucket_monthly, daily_puts,
                 months_to_create_vpts, month_state, month_attempts, files_to_concat,
                 df_month>>

\* line 176: vpts() on the downloaded files; no file at all is an error
DailyVpts ==
  /\ pc = "download"
  /\ i = odim5_files
  /\ \E ok \in BOOLEAN :
       IF ok /\ odim5_files > 0
       THEN /\ pc' = "to_csv"
            /\ UNCHANGED <<j, warnings, daily_state>>
       ELSE DailyExcept
  /\ UNCHANGED <<path_s3_folder, coverage_csv, df_cov, planned_days, days_to_create_vpts, locals, odim5_files,
                 i, temp_folders, local_csv, bucket_daily, bucket_monthly, daily_puts,
                 months_to_create_vpts, month_state, month_attempts, files_to_concat,
                 df_month>>

\* line 179: write the daily csv into the temp folder
DailyToCsv ==
  /\ pc = "to_csv"
  /\ \E ok \in BOOLEAN :
       IF ok
       THEN /\ local_csv' = DailyCsvText(days_to_create_vpts[j], "run")
            /\ pc' = "put"
            /\ UNCHANGED <<j, warnings, daily_state>>
       ELSE /\ DailyExcept
            /\ UNCHANGED local_csv
  /\ UNCHANGED <<path_s3_folder, coverage_csv, df_cov, planned_days, days_to_create_vpts, locals, odim5_files,
                 i, temp_folders, bucket_daily, bucket_monthly, daily_puts,
                 months_to_create_vpts, month_state, month_attempts, files_to_concat,
                 df_month>>

\* lines 182-185: copy the daily csv to its S3 key
DailyPut ==
  /\ pc = "put"
  /\ \E ok \in BOOLEAN :
       IF ok
       THEN /\ LET key == chars(S3_BUCKET) \o chars("/") \o s3_file_path_daily_vpts(odim_path)
               IN bucket_daily' = [k \in DOMAIN bucket_daily \cup {key} |->
                                     IF k = key THEN local_csv ELSE bucket_daily[k]]
            /\ daily_puts' = [daily_puts EXCEPT ![j] = @ + 1]
            /\ pc' = "rmtree"
            /\ UNCHANGED <<j, warnings, daily_state>>
       ELSE /\ DailyExcept
            /\ UNCHANGED <<bucket_daily, daily_puts>>
  /\ UNCHANGED <<path_s3_folder, coverage_csv, df_cov, planned_days, days_to_create_vpts, locals, odim5_files,
                 i, temp_folders, local_csv, bucket_monthly, months_to_create_vpts,
                 month_state, month_attempts, files_to_concat, df_month>>

\* line 188: remove the temp folder; the iteration ends
DailyRmtree ==
  /\ pc = "rmtree"
  /\ \E ok \in BOOLEAN :
       IF ok
       THEN /\ temp_folders' = temp_folders \ {j}
            /\ local_csv' = NoFile
            /\ daily_state' = [daily_state EXCEPT ![j] = "Built"]
            /\ j' = j + 1
            /\ pc' = "daily"
            /\ UNCHANGED warnings
       ELSE /\ DailyExcept
            /\ UNCHANGED <<temp_folders, local_csv>>
  /\ UNCHANGED <<path_s3_folder, coverage_csv, df_cov, planned_days, days_to_create_vpts, locals, odim5_files,
                 i, bucket_daily, bucket_monthly, daily_puts, months_to_create_vpts,
                 month_state, month_attempts, files_to_concat, df_month>>

\* lines 198-200: x[:-1]
remove_day(x) == SubSeq(x, 1, Len(x) - 1)

\* a derivation that forgets the groupby: one monthly target per daily target
derive_months_no_groupby(directory) ==
  [n \in DOMAIN directory |-> remove_day(directory[n])]

\* lines 197-203: the day removed from every directory, then groupby("directory")
derive_months(directory) ==
  sorted_tuples({remove_day(directory[n]) : n \in DOMAIN directory})

\* a filter on the month alone
select_files_month_only(file_list, p) ==
  sorted_strs({daily_vpts \in file_list : find(daily_vpts, chars(p.month)) >= 0})

\* lines 213-219: the listed keys holding {year}{month}, sorted
select_files(file_list, p) ==
  sorted_strs({daily_vpts \in file_list :
                 find(daily_vpts, chars(p.year) \o chars(p.month)) >= 0})

\* lines 193-205: the daily loop is over; derive the monthly targets. The frame
\* months_to_create_vpts is days_to_create_vpts itself, so its column changes too.
DeriveMonths ==
  /\ pc = "daily"
  /\ j > Len(days_to_create_vpts)
  /\ days_to_create_vpts' = [n \in DOMAIN days_to_create_vpts |->
                               remove_day(days_to_create_vpts[n])]
  /\ months_to_create_vpts' = derive_months(days_to_create_vpts)
  /\ month_state' = [n \in DOMAIN months_to_create_vpts' |-> "Pending"]
  /\ j' = 1
  /\ pc' = "monthly"
  /\ UNCHANGED <<path_s3_folder, coverage_csv, df_cov, planned_days, locals, odim5_files, i, temp_folders,
                 local_csv, bucket_daily, bucket_monthly, warnings, daily_state,
                 daily_puts, month_attempts, files_to_concat, df_month>>

\* lines 237-239: the except clause of the monthly loop; it formats day as well
MonthlyExcept ==
  IF locals.source = Unbound \/ locals.day = Unbound
  THEN /\ pc' = "aborted"
       /\ UNCHANGED <<j, warnings, month_state>>
  ELSE /\ pc' = "monthly"
       /\ j' = j + 1
       /\ warnings' = Append(warnings, [loop |-> "monthly", target |-> j, names |-> locals])
       /\ month_state' = [month_state EXCEPT ![j] = "Failed"]

\* lines 208-209: unpack the monthly directory, build the OdimFilePath
MonthlyUnpack ==
  /\ pc = "monthly"
  /\ j <= Len(months_to_create_vpts)
  /\ month_attempts' = Append(month_attempts, months_to_create_vpts[j])
  /\ LET monthly_vpts == months_to_create_vpts[j]
     IN IF Len(monthly_vpts) = 5
        THEN /\ locals' = [locals EXCEPT !.source = monthly_vpts[1],
                                         !.radar_code = monthly_vpts[3],
                                         !.year = monthly_vpts[4],
                                         !.month = monthly_vpts[5]]
             /\ pc' = "m_ls"
             /\ UNCHANGED <<j, warnings, month_state>>
        ELSE /\ MonthlyExcept
             /\ UNCHANGED locals
  /\ UNCHANGED <<path_s3_folder, coverage_csv, df_cov, planned_days, days_to_create_vpts, odim5_files, i,
                 temp_folders, local_csv, bucket_daily, bucket_monthly, daily_state,
                 daily_puts, months_to_create_vpts, files_to_concat, df_month>>

\* lines 212-219: list the daily folder, keep and sort the files of the month
MonthlyLs ==
  /\ pc = "m_ls"
  /\ \E ok \in BOOLEAN :
       IF ok
       THEN /\ LET p == OdimFilePath(locals.source, locals.radar_code, "vp",
                                     locals.year, locals.month, "01")
                   file_list == ls(bucket_daily, chars(S3_BUCKET) \o chars("/")
                                                   \o s3_path_setup(p, "daily"))
               IN files_to_concat' = select_files(file_list, p)
            /\ pc' = "m_concat"
            /\ UNCHANGED <<j, warnings, month_state>>
       ELSE /\ MonthlyExcept
            /\ UNCHANGED files_to_concat
  /\ UNCHANGED <<path_s3_folder, coverage_csv, df_cov, planned_days, days_to_create_vpts, locals, odim5_files,
                 i, temp_folders, local_csv, bucket_daily, bucket_monthly, daily_state,
                 daily_puts, months_to_create_vpts, month_attempts, df_month>>

\* lines 221-231: read every file as strings and concatenate; pd.concat of no
\* frame raises
MonthlyConcat ==
  /\ pc = "m_concat"
  /\ \E ok \in BOOLEAN :
       IF ok /\ files_to_concat # <<>>
       THEN /\ df_month' = pd_concat([n \in DOMAIN files_to_concat |->
                                        read_csv(bucket_daily[files_to_concat[n]], FALSE)])
            /\ pc' = "m_to_csv"
            /\ UNCHANGED <<j, warnings, month_state>>
       ELSE /\ MonthlyExcept
            /\ UNCHANGED df_month
  /\ UNCHANGED <<path_s3_folder, coverage_csv, df_cov, planned_days, days_to_create_vpts, locals, odim5_files,
                 i, temp_folders, local_csv, bucket_daily, bucket_monthly, daily_state,
                 daily_puts, months_to_create_vpts, month_attempts, files_to_concat>>

\* lines 232-236: write the monthly csv to its S3 key; the iteration ends
MonthlyToCsv ==
  /\ pc = "m_to_csv"
  /\ \E ok \in BOOLEAN :
       IF ok
       THEN /\ LET p == OdimFilePath(locals.source, locals.radar_code, "vp",
                                     locals.year, locals.month, "01")
                   key == chars(S3_BUCKET) \o chars("/") \o s3_file_path_monthly_vpts(p)
               IN bucket_monthly' = [k \in DOMAIN bucket_monthly \cup {key} |->
                                       IF k = key THEN to_csv(df_month)
                                       ELSE bucket_monthly[k]]
            /\ month_state' = [month_state EXCEPT ![j] = "Built"]
            /\ j' = j + 1
            /\ pc' = "monthly"
            /\ UNCHANGED warnings
       ELSE /\ MonthlyExcept
            /\ UNCHANGED bucket_monthly
  /\ UNCHANGED <<path_s3_folder, coverage_csv, df_cov, planned_days, days_to_create_vpts, locals, odim5_files,
                 i, temp_folders, local_csv, bucket_daily, daily_state, daily_puts,
                 months_to_create_vpts, month_attempts, files_to_concat, df_month>>

\* lines 241-242: the monthly loop is over
Finish ==
  /\ pc = "monthly"
  /\ j > Len(months_to_create_vpts)
  /\ pc' = "done"
  /\ UNCHANGED <<path_s3_folder, coverage_csv, df_cov, planned_days, days_to_create_vpts, j, locals,
                 odim5_files, i, temp_folders, local_csv, bucket_daily, bucket_monthly,
                 warnings, daily_state, daily_puts, months_to_create_vpts, month_state,
                 month_attempts, files_to_concat, df_month>>


\* ================================================================== scripts
\* ------------------------------------------------------------ python values
\* A value an array element, a Level variable or a table cell can hold. Numbers
\* are held in tenths (10 is 1.0); a str is held as its leading number (in
\* tenths, 0 if none) followed by its text.
PyNum(n) == [kind |-> "num", num |-> n, str |-> ""]
PyStr(text) == [kind |-> "str", num |-> 0, str |-> text]
PyBool(b) == [kind |-> "bool", num |-> IF b THEN 10 ELSE 0, str |-> ""]
\* a timezone-aware UTC datetime, t seconds after the first one of the model
PyDatetime(t) == [kind |-> "datetime", num |-> t, str |-> "+00:00"]

\* a == b: True == 1 and False == 0, a str equals a str alone
py_eq(a, b) ==
  IF a.kind = "str" \/ b.kind = "str" \/ a.kind = "datetime" \/ b.kind = "datetime"
  THEN a = b
  ELSE a.num = b.num

\* str(v), as print and the csv module render a value
py_str(v) ==
  CASE v.kind = "str" -> v
    [] v.kind = "bool" -> PyStr(IF v.num = 10 THEN "True" ELSE "False")
    [] OTHER -> [kind |-> "str", num |-> v.num, str |-> v.str]

\* int(v) of a number: truncation
py_int(v) == PyNum((v.num \div 10) * 10)

\* the return value None, and a returned list
None == [found |-> FALSE, values |-> <<>>]
List(values) == [found |-> TRUE, values |-> values]

\* ------------------------------------------------------------ Profile, Level
\* lines 87-103: variables_to_load
variables_to_load ==
  << [name |-> "dens", convert_to_bool |-> FALSE],
     [name |-> "ff", convert_to_bool |-> FALSE],
     [name |-> "dd", convert_to_bool |-> FALSE],
     [name |-> "eta", convert_to_bool |-> FALSE],
     [name |-> "sd_vvp", convert_to_bool |-> FALSE],
     [name |-> "DBZH", convert_to_bool |-> FALSE],
     [name |-> "dbz", convert_to_bool |-> FALSE],
     [name |-> "u", convert_to_bool |-> FALSE],
     [name |-> "v", convert_to_bool |-> FALSE],
     [name |-> "gap", convert_to_bool |-> TRUE],
     [name |-> "w", convert_to_bool |-> FALSE],
     [name |-> "n_dbz", convert_to_bool |-> FALSE],
     [name |-> "n", convert_to_bool |-> FALSE],
     [name |-> "n_all", convert_to_bool |-> FALSE],
     [name |-> "n_dbz_all", convert_to_bool |-> FALSE] >>

variable_names == {variables_to_load[k].name : k \in DOMAIN variables_to_load}

\* lines 29-35: Level
Level(height, variables) == [height |-> height, variables |-> variables]

\* lines 44-53: Profile
Profile(radar_identifiers, datetime, levels) ==
  [radar_identifiers |-> radar_identifiers, datetime |-> datetime, levels |-> levels]

\* line 34-35: Level.__lt__
level_lt(a, b) == a.height.num < b.height.num

\* line 52-53: Profile.__lt__
profile_lt(a, b) == a.datetime.num < b.datetime.num

\* sorted(levels): stable, by Level.__lt__
RECURSIVE sorted_levels(_)
sorted_levels(xs) ==
  IF xs = <<>> THEN <<>>
  ELSE LET n == CHOOSE a \in DOMAIN xs :
                  /\ \A b \in DOMAIN xs : ~level_lt(xs[b], xs[a])
                  /\ \A b \in 1..(a - 1) : level_lt(xs[a], xs[b])
       IN <<xs[n]>> \o sorted_levels(SubSeq(xs, 1, n - 1) \o SubSeq(xs, n + 1, Len(xs)))

\* sorted(profiles): stable, by Profile.__lt__
RECURSIVE sorted_profiles(_)
sorted_profiles(xs) ==
  IF xs = <<>> THEN <<>>
  ELSE LET n == CHOOSE a \in DOMAIN xs :
                  /\ \A b \in DOMAIN xs : ~profile_lt(xs[b], xs[a])
                  /\ \A b \in 1..(a - 1) : profile_lt(xs[a], xs[b])
       IN <<xs[n]>> \o sorted_profiles(SubSeq(xs, 1, n - 1) \o SubSeq(xs, n + 1, Len(xs)))

\* lines 141-163: get_values. dataset is the sequence of its data groups, in
\* the order h5py iterates them.
get_values(dataset, quantity, convert_to_bool) ==
  LET matching == {g \in DOMAIN dataset : dataset[g].what.quantity = quantity}
  IN IF matching = {} THEN None
     ELSE LET data_group == dataset[CHOOSE g \in matching : \A h \in matching : g <= h]
              nodata_val == PyNum(data_group.what.nodata)
              undetect_val == PyNum(data_group.what.undetect)
              values0 == [e \in DOMAIN data_group.data |-> PyNum(data_group.data[e])]
              values1 == [e \in DOMAIN values0 |->
                            IF py_eq(values0[e], nodata_val) THEN PyStr("nodata")
                            ELSE values0[e]]
              values2 == [e \in DOMAIN values1 |->
                            IF py_eq(values1[e], undetect_val) THEN PyStr("undetect")
                            ELSE values1[e]]
              values3 == [e \in DOMAIN values2 |->
                            IF py_eq(values2[e], PyNum(10)) THEN PyBool(TRUE)
                            ELSE PyBool(FALSE)]
          IN List(IF convert_to_bool THEN values3 ELSE values2)

NoProfile == Profile(<<>>, PyDatetime(0), <<>>)

\* lines 82-125: Profile.make_from_odim. The result names the exception that
\* leaves the method, "none" if the Profile is returned.
make_from_odim(source_odim) ==
  LET dataset1 == source_odim.dataset1
      height_values == get_values(dataset1, "HGHT", FALSE)
      column(k) == get_values(dataset1, variables_to_load[k].name,
                              variables_to_load[k].convert_to_bool)
  IN IF ~height_values.found
     THEN [error |-> "TypeError", profile |-> NoProfile]
     ELSE IF \E n \in DOMAIN height_values.values, k \in DOMAIN variables_to_load :
               ~column(k).found
     THEN [error |-> "TypeError", profile |-> NoProfile]
     ELSE IF \E n \in DOMAIN height_values.values, k \in DOMAIN variables_to_load :
               n > Len(column(k).values)
     THEN [error |-> "IndexError", profile |-> NoProfile]
     ELSE LET levels == [n \in DOMAIN height_values.values |->
                           Level(height_values.values[n],
                                 [name \in variable_names |->
                                    LET k == CHOOSE k \in DOMAIN variables_to_load :
                                               variables_to_load[k].name = name
                                    IN column(k).values[n]])]
          IN [error |-> "none",
              profile |-> Profile(source_odim.root_source, source_odim.root_datetime,
                                  sorted_levels(levels))]

\* lines 185-190: datetime_to_proper8601: str(d).replace("+00:00", "Z")
datetime_to_proper8601(d) ==
  LET text == py_str(d)
  IN IF text.str = "+00:00" THEN [text EXCEPT !.str = "Z"] ELSE text

\* the keys of a row, in insertion order
row_keys == <<"datetime", "height">> \o [k \in DOMAIN variables_to_load |-> variables_to_load[k].name]

\* lines 55-80: Profile.to_table(prepare_for_csv=True); a row is a dict
to_table(profile) ==
  [n \in DOMAIN profile.levels |->
     [key \in Range(row_keys) |->
        IF key = "datetime" THEN datetime_to_proper8601(profile.datetime)
        ELSE IF key = "height" THEN py_int(profile.levels[n].height)
        ELSE profile.levels[n].variables[key]]]

\* lines 166-182: table_to_frictionless_csv: the lines written to the file, the
\* header first; IndexError on an empty table
table_to_frictionless_csv(table) ==
  IF table = <<>> THEN [error |-> "IndexError", lines |-> <<>>]
  ELSE LET keys == row_keys
           entry(n) == [key \in DOMAIN table[n] |->
                          LET cell == table[n][key]
                          IN IF cell.kind = "bool"
                             THEN PyStr(IF cell.num = 10 THEN "true" ELSE "false")
                             ELSE cell]
       IN [error |-> "none",
           lines |-> <<[c \in DOMAIN keys |-> PyStr(keys[c])]>> \o
                     [n \in DOMAIN table |->
                        [c \in DOMAIN keys |-> py_str(entry(n)[keys[c]])]]]


\* ------------------------------------------------------------ ODIM containers
\* lines 15-17: return codes
EXIT_INVALID_SOURCE_FILE == 1
EXIT_NO_SOURCE_DATA == 2
EXIT_INCONSISTENT_METADATA == 3

DESCRIPTOR_FILENAME == "datapackage.json"
CSV_FILENAME == "vpts.csv"

\* a data group of dataset1: its what attributes and its array (entry[0] of
\* every entry); the declared sentinels are 255.0 and 254.0
DataGroup(quantity, data) ==
  [what |-> [quantity |-> quantity, nodata |-> 2550, undetect |-> 2540], data |-> data]

\* raw array elements: 0.0, 1.0, the under-detection sentinel, the no-data sentinel
RawValues == {0, 10, 2540, 2550}
\* heights in tenths of a metre: 0.0 and 200.5
HeightValues == {0, 2005}

bewid == [NOD |-> "bewid", WMO |-> "06477"]
bejab == [NOD |-> "bejab", WMO |-> "06451"]

\* An ODIM container as ODIMReader exposes it: the top-level groups, what.object,
\* what.source, the root datetime and the data groups of dataset1. Quantity
\* `missing` has no data group; gap and dens hold the array raw, the others 7.0.
Container(missing, heights, raw, radar, t, object) ==
  LET groups == <<DataGroup("HGHT", heights)>> \o
                [k \in DOMAIN variables_to_load |->
                   DataGroup(variables_to_load[k].name,
                             IF variables_to_load[k].name \in {"gap", "dens"} THEN raw
                             ELSE [n \in DOMAIN heights |-> 70])]
      present(g) == g.what.quantity # missing
  IN [keys |-> {"what", "how", "where", "dataset1"},
      root_object_str |-> object,
      root_source |-> radar,
      root_datetime |-> PyDatetime(t),
      dataset1 |-> SelectSeq(groups, present)]

Missing == {"", "HGHT", "dens", "gap", "n_dbz_all"}

\* the containers the extraction functions are applied to
ExtractContainers ==
  UNION {UNION {{Container(missing, heights, raw, bewid, 1, "VP") :
                   missing \in Missing, raw \in [1..n -> RawValues]} :
                heights \in [1..n -> HeightValues]} : n \in 0..MaxLevels}

\* the containers the pattern of the scripts cli can match
CliContainers ==
  {Container("", <<2005, 0>>, <<10, 2550>>, radar, t, "VP") :
     radar \in {bewid, bejab}, t \in {1, 2}}
  \cup {Container("", <<2005>>, <<0>>, bewid, 1, "VP"),
        Container("", <<2005>>, <<0>>, bewid, 1, "PVOL"),
        Container("dens", <<>>, <<>>, bewid, 2, "VP"),
        Container("dens", <<0>>, <<0>>, bewid, 2, "VP")}

OdimLists == UNION {[1..n -> CliContainers] : n \in 0..MaxOdims}

\* lines 128-138: check_source_odim; TRUE if InvalidSourceODIM is raised
check_source_odim(source_odim) ==
  \/ ~({"what", "how", "where"} \subseteq source_odim.keys)
  \/ source_odim.root_object_str # "VP"

\* ------------------------------------------------------------ extraction
NoValues == [quantity |-> "", convert_to_bool |-> FALSE, result |-> None]
NoResult == [error |-> "", profile |-> NoProfile]
NoCsv == [error |-> "", lines |-> <<>>]

InitExtract ==
  /\ x_pc = "start"
  /\ x_odim \in ExtractContainers
  /\ x_values = NoValues
  /\ x_result = NoResult
  /\ x_table = <<>>
  /\ x_csv = NoCsv

ExtractIdle ==
  /\ x_pc = "idle"
  /\ x_odim = Container("", <<>>, <<>>, bewid, 1, "VP")
  /\ x_values = NoValues
  /\ x_result = NoResult
  /\ x_table = <<>>
  /\ x_csv = NoCsv

\* get_values(dataset1, quantity, convert_to_bool) for one of variables_to_load
GetValues ==
  /\ x_pc = "start"
  /\ \E k \in DOMAIN variables_to_load :
       x_values' = [quantity |-> variables_to_load[k].name,
                    convert_to_bool |-> variables_to_load[k].convert_to_bool,
                    result |-> get_values(x_odim.dataset1, variables_to_load[k].name,
                                          variables_to_load[k].convert_to_bool)]
  /\ x_pc' = "get_values"
  /\ UNCHANGED <<x_odim, x_result, x_table, x_csv>>

\* Profile.make_from_odim(x_odim)
MakeFromOdim ==
  /\ x_pc = "start"
  /\ x_result' = make_from_odim(x_odim)
  /\ x_pc' = "make_from_odim"
  /\ UNCHANGED <<x_odim, x_values, x_table, x_csv>>

\* profile.to_table() of the returned Profile
ToTable ==
  /\ x_pc = "make_from_odim"
  /\ x_result.error = "none"
  /\ x_table' = to_table(x_result.profile)
  /\ x_pc' = "to_table"
  /\ UNCHANGED <<x_odim, x_values, x_result, x_csv>>

\* table_to_frictionless_csv(table, path)
TableToCsv ==
  /\ x_pc = "to_table"
  /\ x_csv' = table_to_frictionless_csv(x_table)
  /\ x_pc' = "table_to_frictionless_csv"
  /\ UNCHANGED <<x_odim, x_values, x_result, x_table>>

\* ------------------------------------------------------------ scripts cli
\* parameters of save_to_vpts (line 218) and of table_to_frictionless_csv (line 166)
save_to_vpts_params == {"full_data_table", "folder_path_output", "source_metadata"}
table_to_frictionless_csv_params == {"full_data_table", "file_path_output_csv"}

\* a call binds its keyword arguments to parameters of those names, or raises TypeError
binds(params, keywords) == keywords \subseteq params

\* lines 193-215: write_descriptor
write_descriptor(table, source_metadata) ==
  [radar |-> source_metadata, start |-> datetime_to_proper8601(table[1]["datetime"]),
   end |-> datetime_to_proper8601(table[Len(table)]["datetime"])]

\* lines 218-224: save_to_vpts: the exception that leaves it ("none" if none)
\* and the files it leaves in the output folder
save_to_vpts(table, source_metadata) ==
  IF ~binds(table_to_frictionless_csv_params, {"output_csv_path"})
  THEN [error |-> "TypeError", files |-> {}]
  ELSE IF table_to_frictionless_csv(table).error # "none"
  THEN [error |-> table_to_frictionless_csv(table).error, files |-> {}]
  ELSE [error |-> "none", files |-> {CSV_FILENAME, DESCRIPTOR_FILENAME}]

\* a check with any in the place of all
some_same_radar(ps) ==
  \E n \in DOMAIN ps : ps[n].radar_identifiers = ps[1].radar_identifiers

\* lines 264-267: all(profile.radar_identifiers == profiles[0].radar_identifiers ...)
all_same_radar(ps) ==
  \A n \in DOMAIN ps : ps[n].radar_identifiers = ps[1].radar_identifiers

\* lines 276-280: the rows of every profile's table, appended in order
RECURSIVE aggregate(_)
aggregate(ps) ==
  IF ps = <<>> THEN <<>> ELSE to_table(Head(ps)) \o aggregate(Tail(ps))

InitCli ==
  /\ s_pc = "open"
  /\ odims = <<>>
  /\ open_handles = {}
  /\ profiles = <<>>
  /\ global_metadata = <<>>
  /\ full_data_table = <<>>
  /\ output_files = {}
  /\ exit_code = -1
  /\ raised = ""

CliIdle ==
  /\ s_pc = "idle"
  /\ odims = <<>>
  /\ open_handles = {}
  /\ profiles = <<>>
  /\ global_metadata = <<>>
  /\ full_data_table = <<>>
  /\ output_files = {}
  /\ exit_code = -1
  /\ raised = ""

\* lines 233-243: open every file the pattern matches; exit if there is none
CliOpen ==
  /\ s_pc = "open"
  /\ \E os \in OdimLists :
       /\ odims' = os
       /\ open_handles' = DOMAIN os
       /\ IF os = <<>>
          THEN s_pc' = "exit" /\ exit_code' = EXIT_NO_SOURCE_DATA
          ELSE s_pc' = "check" /\ UNCHANGED exit_code
  /\ UNCHANGED <<profiles, global_metadata, full_data_table, output_files, raised>>

\* lines 245-253: check every source file; exit at the first invalid one
CliCheck ==
  /\ s_pc = "check"
  /\ IF \E n \in DOMAIN odims : check_source_odim(odims[n])
     THEN s_pc' = "exit" /\ exit_code' = EXIT_INVALID_SOURCE_FILE
     ELSE s_pc' = "build" /\ UNCHANGED exit_code
  /\ UNCHANGED <<odims, open_handles, profiles, global_metadata, full_data_table,
                 output_files, raised>>

\* lines 255-258: build and sort the profiles; an exception of make_from_odim
\* leaves cli
CliBuild ==
  /\ s_pc = "build"
  /\ LET built == [n \in DOMAIN odims |-> make_from_odim(odims[n])]
         failed == {n \in DOMAIN built : built[n].error # "none"}
     IN IF failed # {}
        THEN /\ s_pc' = "exit"
             /\ exit_code' = 1
             /\ raised' = built[CHOOSE n \in failed : \A m \in failed : n <= m].error
             /\ UNCHANGED profiles
        ELSE /\ profiles' = sorted_profiles([n \in DOMAIN built |-> built[n].profile])
             /\ s_pc' = "consistency"
             /\ UNCHANGED <<exit_code, raised>>
  /\ UNCHANGED <<odims, open_handles, global_metadata, full_data_table, output_files>>

\* lines 260-272: all profiles must refer to the same radar
CliConsistency ==
  /\ s_pc = "consistency"
  /\ IF all_same_radar(profiles)
     THEN /\ global_metadata' = profiles[1].radar_identifiers
          /\ s_pc' = "aggregate"
          /\ UNCHANGED exit_code
     ELSE /\ s_pc' = "exit"
          /\ exit_code' = EXIT_INCONSISTENT_METADATA
          /\ UNCHANGED global_metadata
  /\ UNCHANGED <<odims, open_handles, profiles, full_data_table, output_files, raised>>

\* lines 274-281: aggregate the tables of the profiles
CliAggregate ==
  /\ s_pc = "aggregate"
  /\ full_data_table' = aggregate(profiles)
  /\ s_pc' = "save"
  /\ UNCHANGED <<odims, open_handles, profiles, global_metadata, output_files,
                 exit_code, raised>>

\* lines 283-287: save_to_vpts(full_data_table, output_dir=..., source_metadata=...)
CliSave ==
  /\ s_pc = "save"
  /\ LET saved == IF binds(save_to_vpts_params, {"output_dir", "source_metadata"})
                  THEN save_to_vpts(full_data_table, global_metadata)
                  ELSE [error |-> "TypeError", files |-> {}]
     IN /\ output_files' = output_files \cup saved.files
        /\ IF saved.error = "none"
           THEN s_pc' = "done" /\ exit_code' = 0 /\ UNCHANGED raised
           ELSE s_pc' = "exit" /\ exit_code' = 1 /\ raised' = saved.error
  /\ UNCHANGED <<odims, open_handles, profiles, global_metadata, full_data_table>>

\* ------------------------------------------------------------ specifications
BinIdleOthers == UNCHANGED <<cli_vars, x_vars>>

NextBin ==
  \/ Plan /\ BinIdleOthers
  \/ SaveCoverage /\ BinIdleOthers
  \/ DailyUnpack /\ BinIdleOthers
  \/ DailyLs /\ BinIdleOthers
  \/ DailyMkdtemp /\ BinIdleOthers
  \/ DailyDownload /\ BinIdleOthers
  \/ DailyVpts /\ BinIdleOthers
  \/ DailyToCsv /\ BinIdleOthers
  \/ DailyPut /\ BinIdleOthers
  \/ DailyRmtree /\ BinIdleOthers
  \/ DeriveMonths /\ BinIdleOthers
  \/ MonthlyUnpack /\ BinIdleOthers
  \/ MonthlyLs /\ BinIdleOthers
  \/ MonthlyConcat /\ BinIdleOthers
  \/ MonthlyToCsv /\ BinIdleOthers
  \/ Finish /\ BinIdleOthers

\* the bin cli
InitBinRun == InitBin /\ CliIdle /\ ExtractIdle
SpecBin == InitBinRun /\ [][NextBin]_vars

\* the bin cli is one sequential process: a step that can be taken is taken
SpecBinLive == SpecBin /\ WF_vars(NextBin)

BinIdle ==
  /\ pc = "idle"
  /\ path_s3_folder = FALSE
  /\ coverage_csv = [content |-> PriorCoverage, writes |-> 0]
  /\ df_cov = NoFrame
  /\ days_to_create_vpts = <<>>
  /\ planned_days = <<>>
  /\ j = 1
  /\ locals = UnboundLocals
  /\ odim5_files = 0
  /\ i = 0
  /\ temp_folders = {}
  /\ local_csv = NoFile
  /\ bucket_daily = <<>>
  /\ bucket_monthly = <<>>
  /\ warnings = <<>>
  /\ daily_state = <<>>
  /\ daily_puts = <<>>
  /\ months_to_create_vpts = <<>>
  /\ month_state = <<>>
  /\ month_attempts = <<>>
  /\ files_to_concat = <<>>
  /\ df_month = [columns |-> <<>>, rows |-> <<>>]

NextCli ==
  \/ CliOpen /\ UNCHANGED <<bin_vars, x_vars>>
  \/ CliCheck /\ UNCHANGED <<bin_vars, x_vars>>
  \/ CliBuild /\ UNCHANGED <<bin_vars, x_vars>>
  \/ CliConsistency /\ UNCHANGED <<bin_vars, x_vars>>
  \/ CliAggregate /\ UNCHANGED <<bin_vars, x_vars>>
  \/ CliSave /\ UNCHANGED <<bin_vars, x_vars>>

\* the scripts cli
InitCliRun == InitCli /\ BinIdle /\ ExtractIdle
SpecCli == InitCliRun /\ [][NextCli]_vars

NextExtract ==
  \/ GetValues /\ UNCHANGED <<bin_vars, cli_vars>>
  \/ MakeFromOdim /\ UNCHANGED <<bin_vars, cli_vars>>
  \/ ToTable /\ UNCHANGED <<bin_vars, cli_vars>>
  \/ TableToCsv /\ UNCHANGED <<bin_vars, cli_vars>>

\* get_values, make_from_odim, to_table and table_to_frictionless_csv applied
\* to one container
InitExtractRun == InitExtract /\ BinIdle /\ CliIdle
SpecExtract == InitExtractRun /\ [][NextExtract]_vars


\* ================================================================== claims
\* positions of the bin cli after the daily loop
AfterDailyLoop == pc \in {"monthly", "m_ls", "m_concat", "m_to_csv", "done"}

Digit(c) == Ord(c) - Ord("0")

\* the number a string of digits writes
RECURSIVE Num(_)
Num(s) == IF s = <<>> THEN 0 ELSE 10 * Num(SubSeq(s, 1, Len(s) - 1)) + Digit(s[Len(s)])

\* C1: every daily target is attempted and ends Built or Failed; no failure of
\* a target, the first one and a failure before its names are known included,
\* stops the loop or aborts the run.
C1_PartialFailureIsolation ==
  /\ pc # "aborted"
  /\ AfterDailyLoop => \A n \in DOMAIN daily_state : daily_state[n] \in {"Built", "Failed"}

\* C2: when the loop moves to the next target, and after the run, the temp
\* folder of every target processed so far has been deleted, Built or Failed.
C2_TempStorageReleased ==
  (pc = "daily" \/ AfterDailyLoop) => temp_folders = {}

\* C3: the daily key is put at most once per target and only after listing,
\* all downloads, conversion and the local csv succeeded; a Failed target has
\* not put its key, a target whose key was put is Built once it is over.
C3_NoOutputOnFailure ==
  \A n \in DOMAIN daily_state :
    /\ daily_puts[n] <= 1
    /\ (pc = "rmtree" /\ n = j) => (i = odim5_files /\ local_csv # NoFile)
    /\ daily_state[n] = "Failed" => daily_puts[n] = 0
    /\ (daily_puts[n] = 1 /\ daily_state[n] # "Pending") => daily_state[n] = "Built"

\* the radar-days that have a daily csv on the bucket
AllDays == {t \in DayTargets \cup PriorDays : Len(t) = 6}
DaysOnBucket == {t \in AllDays : DailyKey(t) \in DOMAIN bucket_daily}

\* the radar-days on the bucket that belong to radar-month m
DaysOfMonth(m) ==
  {t \in DaysOnBucket : t[1] = m[1] /\ t[3] = m[3] /\ t[4] = m[4] /\ t[5] = m[5]}

\* the data rows of the daily csv files of a set of days of one month, by date
RECURSIVE RowsByDate(_)
RowsByDate(D) ==
  IF D = {} THEN <<>>
  ELSE LET first == CHOOSE t \in D : \A u \in D : Num(chars(t[6])) <= Num(chars(u[6]))
       IN Tail(bucket_daily[DailyKey(first)]) \o RowsByDate(D \ {first})

\* C4: a monthly csv written by the run holds one header row, then exactly the
\* data rows of the daily csv files of that radar, year and month, in date
\* order, every cell as it is in the daily file.
C4_MonthlyContent ==
  \A n \in DOMAIN months_to_create_vpts :
    LET m == months_to_create_vpts[n]
    IN (Len(m) = 5 /\ MonthlyKey(m) \in DOMAIN bucket_monthly)
         => bucket_monthly[MonthlyKey(m)] = <<CsvHeader>> \o RowsByDate(DaysOfMonth(m))

\* a month was written from two daily files, a prior one and one of this run,
\* while a file of another month was listed in the same folder
C4_Witness ==
  /\ pc = "done"
  /\ LET m == <<"baltrad", "hdf5", "bejab", "2022", "10">>
     IN /\ MonthlyKey(m) \in DOMAIN bucket_monthly
        /\ Cardinality(DaysOfMonth(m)) = 2
        /\ Len(bucket_monthly[MonthlyKey(m)]) = 4
        /\ bucket_monthly[MonthlyKey(m)][2][6] = "nodata"
        /\ bucket_monthly[MonthlyKey(m)][3][6] = ""
        /\ bucket_monthly[MonthlyKey(m)][4][6] = "undetect"
  /\ DailyKey(<<"baltrad", "hdf5", "bejab", "2022", "01", "10">>) \in DOMAIN bucket_daily

\* the directory without its last part
Truncation(t) == [n \in 1..(Len(t) - 1) |-> t[n]]

\* C5: the monthly targets are the distinct truncations of the planned daily
\* targets, Built or Failed; each is attempted at most once, in a finished run
\* exactly once, and nothing else is attempted.
C5_MonthsOnce ==
  /\ ~AfterDailyLoop => month_attempts = <<>>
  /\ AfterDailyLoop =>
       /\ Range(months_to_create_vpts) = {Truncation(planned_days[n]) : n \in DOMAIN planned_days}
       /\ Len(month_attempts) <= Len(months_to_create_vpts)
       /\ \A n \in DOMAIN month_attempts : month_attempts[n] = months_to_create_vpts[n]
       /\ \A a, b \in DOMAIN month_attempts : a # b => month_attempts[a] # month_attempts[b]
  /\ pc = "done" =>
       \A m \in {Truncation(planned_days[n]) : n \in DOMAIN planned_days} :
         Cardinality({n \in DOMAIN month_attempts : month_attempts[n] = m}) = 1

\* two days of one month, one of them Failed, gave one monthly target
C5_Witness ==
  /\ pc = "done"
  /\ Len(planned_days) = 2
  /\ Truncation(planned_days[1]) = Truncation(planned_days[2])
  /\ \E n \in DOMAIN daily_state : daily_state[n] = "Failed"
  /\ \E n \in DOMAIN daily_state : daily_state[n] = "Built"
  /\ Len(month_attempts) = 1

\* the raw array of quantity q in container c, and its declared sentinels
GroupOf(c, q) ==
  c.dataset1[CHOOSE g \in DOMAIN c.dataset1 : c.dataset1[g].what.quantity = q]
HasGroup(c, q) == \E g \in DOMAIN c.dataset1 : c.dataset1[g].what.quantity = q

\* the marker a raw element must decode to, "" if it is no sentinel
MarkerOf(group, e) ==
  IF group.data[e] = group.what.nodata THEN "nodata"
  ELSE IF group.data[e] = group.what.undetect THEN "undetect"
  ELSE ""

\* the row of the table a raw level e ends in: levels are sorted by height,
\* equal heights keep their order
RowOfLevel(heights, e) ==
  Cardinality({f \in DOMAIN heights : heights[f] < heights[e]})
    + Cardinality({f \in 1..(e - 1) : heights[f] = heights[e]}) + 1

\* the column of a key in the csv
ColumnOf(key) == CHOOSE c \in DOMAIN row_keys : row_keys[c] = key

\* C6: for every variable of the list, boolean or not, an element equal to the
\* no-data sentinel is decoded to "nodata" by get_values and is the csv cell
\* nodata after to_table and table_to_frictionless_csv; the same for undetect.
C6_SentinelFidelity ==
  /\ (x_pc = "get_values" /\ x_values.result.found) =>
       \A e \in DOMAIN x_values.result.values :
         LET marker == MarkerOf(GroupOf(x_odim, x_values.quantity), e)
         IN marker # "" => x_values.result.values[e] = PyStr(marker)
  /\ (x_pc = "table_to_frictionless_csv" /\ x_csv.error = "none") =>
       \A name \in variable_names :
         \A e \in DOMAIN GroupOf(x_odim, name).data :
           LET marker == MarkerOf(GroupOf(x_odim, name), e)
               row == RowOfLevel(GroupOf(x_odim, "HGHT").data, e)
           IN marker # "" => x_csv.lines[1 + row][ColumnOf(name)] = PyStr(marker)

\* C7: with convert_to_bool, an element that matched a sentinel keeps its
\* marker and is not turned into a boolean; the others become true or false.
C7_BoolOnlyWithoutSentinel ==
  (x_pc = "get_values" /\ x_values.convert_to_bool /\ x_values.result.found) =>
    \A e \in DOMAIN x_values.result.values :
      LET group == GroupOf(x_odim, x_values.quantity)
          value == x_values.result.values[e]
      IN IF MarkerOf(group, e) # ""
         THEN value.kind = "str" /\ value.str = MarkerOf(group, e)
         ELSE value = PyBool(group.data[e] = 10)

\* the rows a and b of the table are in (timestamp, height) order
RowLeq(a, b) ==
  \/ a["datetime"].num < b["datetime"].num
  \/ a["datetime"].num = b["datetime"].num /\ a["height"].num <= b["height"].num

\* C8: the rows of the aggregated table are non-decreasing in (timestamp,
\* height), whatever the input order and also for profiles of one timestamp.
C8_RowsOrdered ==
  \A n \in 1..(Len(full_data_table) - 1) : RowLeq(full_data_table[n], full_data_table[n + 1])

\* C9: profiles with differing radar identifiers end the run with exit code 3
\* and no file written; with equal identifiers the check passes.
C9_ConsistencyCheck ==
  /\ exit_code = EXIT_INCONSISTENT_METADATA => profiles # <<>>
  /\ profiles # <<>> =>
       IF \E a, b \in DOMAIN profiles :
            profiles[a].radar_identifiers # profiles[b].radar_identifiers
       THEN /\ output_files = {}
            /\ s_pc \in {"consistency", "exit"}
            /\ s_pc = "exit" => exit_code = EXIT_INCONSISTENT_METADATA
       ELSE /\ ~(s_pc = "exit" /\ exit_code = EXIT_INCONSISTENT_METADATA)
            /\ s_pc # "consistency" => global_metadata = profiles[1].radar_identifiers

\* three profiles, the last one after sorting of another radar: exit code 3
C9_Witness ==
  /\ s_pc = "exit"
  /\ exit_code = EXIT_INCONSISTENT_METADATA
  /\ Len(profiles) = 3
  /\ profiles[1].radar_identifiers = profiles[2].radar_identifiers
  /\ profiles[3].radar_identifiers # profiles[1].radar_identifiers
  /\ output_files = {}

\* C10: a container in which HGHT or a variable of the list has no data group
\* makes make_from_odim fail, for every number of levels; a returned Profile
\* has every variable in every Level.
C10_MissingQuantityFatal ==
  x_pc = "make_from_odim" =>
    /\ (\E q \in variable_names \cup {"HGHT"} : ~HasGroup(x_odim, q)) => x_result.error # "none"
    /\ x_result.error = "none" =>
         \A n \in DOMAIN x_result.profile.levels :
           DOMAIN x_result.profile.levels[n].variables = variable_names

\* C11: when the scripts cli is over, by normal completion, by one of its
\* three exits or by an exception of the profile extraction or of the save,
\* every ODIM container it opened has been closed.
C11_HandlesReleased ==
  s_pc \in {"done", "exit"} => open_handles = {}

\* the containers are valid VP files that all refer to one radar
ValidSameRadar(os) ==
  /\ os # <<>>
  /\ \A n \in DOMAIN os :
       /\ ~check_source_odim(os[n])
       /\ \A q \in variable_names \cup {"HGHT"} : HasGroup(os[n], q)
       /\ make_from_odim(os[n]).error = "none"
  /\ \A n \in DOMAIN os : os[n].root_source = os[1].root_source

\* the sum over the containers of their number of levels
RECURSIVE LevelCount(_)
LevelCount(os) ==
  IF os = <<>> THEN 0
  ELSE Len(GroupOf(Head(os), "HGHT").data) + LevelCount(Tail(os))

\* C12: for a non-empty list of valid VP containers of one radar the scripts
\* cli ends without error, with the csv and the descriptor written; the csv has
\* the header datetime,height,<variables in declared order> and one data row
\* per (Profile, Level) pair.
C12_SuccessfulOutput ==
  (s_pc \in {"done", "exit"} /\ ValidSameRadar(odims)) =>
    /\ s_pc = "done" /\ exit_code = 0 /\ raised = ""
    /\ output_files = {CSV_FILENAME, DESCRIPTOR_FILENAME}
    /\ LET csv == table_to_frictionless_csv(full_data_table)
       IN /\ csv.error = "none"
          /\ csv.lines[1] = [c \in DOMAIN row_keys |-> PyStr(row_keys[c])]
          /\ Len(csv.lines) - 1 = LevelCount(odims)

\* every daily target of the run is Built or Failed
DailyStageOver == \A n \in DOMAIN daily_state : daily_state[n] \in {"Built", "Failed"}

\* a radar-month target has been started: it was unpacked, listed or written
MonthStarted ==
  \/ pc \in {"m_ls", "m_concat", "m_to_csv"}
  \/ month_attempts # <<>>
  \/ bucket_monthly # <<>>

\* every monthly target was attempted and is Built or Failed
MonthlyStageOver ==
  /\ Len(month_attempts) = Len(months_to_create_vpts)
  /\ \A n \in DOMAIN month_state : month_state[n] \in {"Built", "Failed"}

\* C13: no radar-month target is started before every daily target is Built or
\* Failed; whatever the daily targets did, the run goes on to the monthly
\* stage, every monthly target ends Built or Failed, and the run completes.
C13_DailyBeforeMonthly ==
  /\ [](MonthStarted => DailyStageOver)
  /\ [](pc = "done" => (DailyStageOver /\ MonthlyStageOver))
  /\ <>(pc = "done")

\* the rows of a coverage frame with the parts of every directory joined
JoinedRows(rows) ==
  [n \in DOMAIN rows |-> [rows[n] EXCEPT !.directory = str_join(@)]]

\* C14: in manifest mode coverage.csv is written exactly once, after planning
\* and before the first daily target starts, and then holds the rows of this
\* run only; no later step changes the coverage frame or the file. In
\* folder-scan mode the manifest is not read and the file is not written.
C14_CoverageOnce ==
  /\ pc = "plan" => (coverage_csv = [content |-> PriorCoverage, writes |-> 0] /\ ~df_cov.bound)
  /\ path_s3_folder =>
       /\ coverage_csv = [content |-> PriorCoverage, writes |-> 0]
       /\ ~df_cov.bound
       /\ pc # "coverage"
  /\ pc = "coverage" =>
       /\ coverage_csv = [content |-> PriorCoverage, writes |-> 0]
       /\ df_cov.bound /\ df_cov.rows \in CoverageFrames
       /\ j = 1 /\ locals = UnboundLocals /\ temp_folders = {} /\ warnings = <<>>
       /\ \A n \in DOMAIN daily_state : daily_state[n] = "Pending" /\ daily_puts[n] = 0
       /\ month_attempts = <<>> /\ bucket_monthly = <<>>
  /\ (~path_s3_folder /\ pc \notin {"plan", "coverage"}) =>
       /\ coverage_csv.writes = 1
       /\ df_cov.bound
       /\ df_cov.rows \in {JoinedRows(rows) : rows \in CoverageFrames}
       /\ coverage_csv.content = df_cov.rows

\* a finished manifest run with a daily and a monthly file written: the
\* coverage file holds the two rows of the run and not the prior row
C14_Witness ==
  /\ pc = "done"
  /\ ~path_s3_folder
  /\ coverage_csv.writes = 1
  /\ Len(coverage_csv.content) = 2
  /\ \A n \in DOMAIN coverage_csv.content : coverage_csv.content[n] # PriorCoverage[1]
  /\ \E n \in DOMAIN daily_state : daily_state[n] = "Built"
  /\ bucket_monthly # <<>>

====
